---- MODULE Spec2Model ----
(***************************************************************************)
(* Model of the zoom-region locator of                                     *)
(* plugins/publication-figures/scripts/sem/template_matching.py:           *)
(* find_zoom_region (the scale loop, one action per iteration) and         *)
(* validate_zoom_match (one action per call); of export_figure of          *)
(* plugins/publication-figures/scripts/export_figure.py (one action per    *)
(* saved file); and of InteractiveScaleBarSelector of                      *)
(* plugins/publication-figures/scripts/sem/scale_bar.py (one action per    *)
(* GUI event).                                                             *)
(*                                                                         *)
(* Images are modelled by their shapes <<height, width>>.  Pixel values    *)
(* are not modelled: what the numeric libraries compute from them (the     *)
(* correlation surface of one template, the scalar of the validator) is an *)
(* input of the call, drawn from a bounded family, and is the same for     *)
(* every template of the same shape, since _downsample reads its factor    *)
(* only through the shape it implies.  Scores are integers; the unit is    *)
(* the unit of the -1 that best_result starts with.  A scale is the exact  *)
(* rational <<numerator, denominator>> that np.linspace yields.            *)
(*                                                                         *)
(* The internal functions (_downsample, _sobel_magnitude, _fft_correlate,  *)
(* and savgol_smooth and detrend_data of scripts/data_helpers.py,          *)
(* load_sem_tiff of scripts/sem/image_processing.py) are also run on their *)
(* own, on small pixel arrays where pixels matter (SpecPure,               *)
(* SpecCorrelate).  The commands of                                        *)
(* plugins/ax-bayesian-optimization/scripts/experiment_manager.py are      *)
(* modelled by their load, save and log steps (SpecExperiment).            *)
(***************************************************************************)
EXTENDS Integers, Sequences, FiniteSets

VARIABLES
    pc,           \* "idle", "loop" and "export" (inside the for loops), "returned",
                  \* "raised"; "holding", "show", "ran" while the caller holds a selector
    op,           \* "none", "find", "validate", "export", "run": the call in progress
                  \* or last made
    args,         \* the arguments and environment of that call
    grad,         \* find: shapes of low_grad and high_grad, and the edge operator used
    scales,       \* find: the sequence np.linspace produced
    pending,      \* find: indices into scales still to be visited;
                  \* export: indices into formats still to be saved
    best_result,  \* find: the running best
    outcome,      \* what the call returned or raised
    parallel,     \* whether candidates are folded in in any order (section 5) or in loop order
    probe,        \* determinism observer: the call whose outcomes are compared
    seen,         \* determinism observer: the outcome the probe call had before
    files,        \* export: the files savefig wrote during the call
    outputs,      \* export: the outputs dict
    selector,     \* the InteractiveScaleBarSelector the caller holds: its fields
    events,       \* run: the button_press_events delivered to the window so far
    written,      \* find, validate: the owners of the arrays written in place so far
    saved,        \* experiment manager: the state in experiment.json
    log,          \* experiment manager: the entries of experiment_log.md
    client,       \* experiment manager: the Ax client of the running command
    todo          \* attach: the data entries still to be attached

exportVars == <<files, outputs>>
selectorVars == <<selector, events>>
findVars == <<grad, scales, best_result, parallel, probe, seen, written>>
expVars == <<saved, log, client, todo>>

vars == <<pc, op, args, grad, scales, pending, best_result, outcome, parallel, probe, seen,
          files, outputs, selector, events, written, saved, log, client, todo>>

(***************************************************************************)
(* Program constants.                                                      *)
(***************************************************************************)
MinTemplate == 10
InitialCorrelation == -1

(***************************************************************************)
(* Bounds of the model.                                                    *)
(***************************************************************************)
MaxLow == 11        \* low-mag images are MinTemplate..MaxLow high and wide
MaxHigh == 16       \* high-mag images are 3*MinTemplate/2..MaxHigh high and wide
MaxScale == 2       \* scale_range ends are 1..MaxScale, or BigScale
MaxSteps == 3       \* steps is 0..MaxSteps
MaxAt == 1          \* the surface family peaks first at linear index 0..MaxAt
MaxValDim == 2      \* validate: images are 1..MaxValDim high and wide
MaxCoord == 2       \* validate: box coordinates are -MaxCoord..MaxCoord
MaxFormats == 2     \* export: a formats list holds 0..MaxFormats names
MaxClick == 1       \* run: clicks land at x = 0..MaxClick
MaxEvents == 3      \* run: at most MaxEvents button presses reach one window

LowDims == MinTemplate..MaxLow
HighDims == (MinTemplate + MinTemplate \div 2)..MaxHigh
BigScale == MaxHigh + 3
ScaleEnds == (1..MaxScale) \cup {BigScale}
\* peak scores: the score best_result starts with, and two above it
Scores == {InitialCorrelation, InitialCorrelation + 1, InitialCorrelation + 2}
ValDims == 1..MaxValDim
Thresholds == {InitialCorrelation + 1, InitialCorrelation + 2}
Coords == (0 - MaxCoord)..MaxCoord

Min(a, b) == IF a <= b THEN a ELSE b
Max(a, b) == IF a >= b THEN a ELSE b

\* linspace with endpoint=False: the stop value is left out
LinspaceExclusive(start, stop, num) ==
    [i \in 1..num |-> <<start * num + (i - 1) * (stop - start), num>>]

(***************************************************************************)
(* np.linspace(start, stop, num): num evenly spaced values, both ends      *)
(* included; the single value start when num = 1; nothing when num = 0.    *)
(***************************************************************************)
Linspace(start, stop, num) ==
    IF num = 1 THEN << <<start, 1>> >>
    ELSE [i \in 1..num |-> <<start * (num - 1) + (i - 1) * (stop - start), num - 1>>]

\* int(n / factor) for a positive rational factor
IntDiv(n, factor) == (n * factor[2]) \div factor[1]

(***************************************************************************)
(* _sobel_magnitude: the gradient map has the shape of its input; the      *)
(* first-difference fallback is used when scipy cannot be imported.        *)
(***************************************************************************)
_sobel_magnitude(shape, has_scipy) ==
    [shape |-> shape, operator |-> IF has_scipy THEN "sobel" ELSE "diff"]

(***************************************************************************)
(* _downsample: the shape of what it returns.  The input comes back        *)
(* unchanged when a dimension rounds below 1; otherwise both the resize    *)
(* and the block-average fallback yield <<new_h, new_w>>.                  *)
(***************************************************************************)
_downsample(shape, factor) ==
    LET new_h == IntDiv(shape[1], factor)
        new_w == IntDiv(shape[2], factor)
    IN  IF new_h < 1 \/ new_w < 1 THEN shape ELSE <<new_h, new_w>>

\* line 48: the candidate is skipped
TooSmall(tshape) == tshape[1] < MinTemplate \/ tshape[2] < MinTemplate

(***************************************************************************)
(* The surface family.  A surface is the row-major sequence of its scores. *)
(* For a call with surface input o, the surface of a template of shape     *)
(* tshape with n positions holds o.peak[tshape] from linear index          *)
(* Min(o.at, n-1) on and one less before it.                               *)
(***************************************************************************)
SurfaceValues(o, tshape, n) ==
    LET first == Min(o.at, n - 1)
        peak == o.peak[tshape]
    IN  [k \in 1..n |-> IF k - 1 >= first THEN peak ELSE peak - 1]

(***************************************************************************)
(* scipy.signal.correlate2d(image, template, mode='valid'): the inputs are *)
(* swapped when the template is at least as large as the image in every    *)
(* dimension; ValueError when neither contains the other.                  *)
(***************************************************************************)
Fits(inner, outer) == inner[1] <= outer[1] /\ inner[2] <= outer[2]

correlate2d_raises(ishape, tshape, fast_throws) ==
    fast_throws \/ (~Fits(tshape, ishape) /\ ~Fits(ishape, tshape))

\* the output shape of mode='full'
correlate2d_shape_full(ishape, tshape) ==
    <<ishape[1] + tshape[1] - 1, ishape[2] + tshape[2] - 1>>

correlate2d_shape(ishape, tshape) ==
    IF Fits(tshape, ishape)
    THEN <<ishape[1] - tshape[1] + 1, ishape[2] - tshape[2] + 1>>
    ELSE <<tshape[1] - ishape[1] + 1, tshape[2] - ishape[2] + 1>>

(***************************************************************************)
(* _naive_correlate: [[0]] when the template does not fit.                 *)
(***************************************************************************)
_naive_correlate(ishape, tshape, o) ==
    LET out_h == ishape[1] - tshape[1] + 1
        out_w == ishape[2] - tshape[2] + 1
    IN  IF out_h <= 0 \/ out_w <= 0
        THEN [shape |-> <<1, 1>>, values |-> <<0>>, path |-> "naive"]
        ELSE [shape |-> <<out_h, out_w>>,
              values |-> SurfaceValues(o, tshape, out_h * out_w),
              path |-> "naive"]

(***************************************************************************)
(* _fft_correlate, once correlate2d is imported.                           *)
(***************************************************************************)
_fft_correlate(ishape, tshape, o, fast_throws) ==
    IF correlate2d_raises(ishape, tshape, fast_throws)
    THEN _naive_correlate(ishape, tshape, o)
    ELSE LET s == correlate2d_shape(ishape, tshape)
         IN  [shape |-> s, values |-> SurfaceValues(o, tshape, s[1] * s[2]),
              path |-> "fast"]

\* np.max
NpMax(values) ==
    CHOOSE v \in {values[k] : k \in 1..Len(values)} :
        \A k \in 1..Len(values) : values[k] <= v

\* np.argmax: the first linear index (from 0) that holds the maximum
NpArgmax(values) ==
    LET m == NpMax(values)
    IN  (CHOOSE k \in 1..Len(values) :
            /\ values[k] = m
            /\ \A j \in 1..(k - 1) : values[j] # m) - 1

\* np.unravel_index(index, shape) -> <<row, col>>
UnravelIndex(index, shape) == <<index \div shape[2], index % shape[2]>>

(***************************************************************************)
(* Who owns the memory an array name refers to: one of the caller's two    *)
(* images, or an array allocated during the call ("local"); and which      *)
(* owners the statements that assign in place write to.                    *)
(***************************************************************************)
CallerArrays == {"low_mag_img", "high_mag_img"}

\* lines 102-111: sobel, np.diff and np.sqrt allocate what they return
SobelOwner(owner) == "local"

\* lines 128-144: _downsample returns img itself, or a new array
DownsampleOwner(owner, shape, factor) ==
    IF IntDiv(shape[1], factor) < 1 \/ IntDiv(shape[2], factor) < 1 THEN owner ELSE "local"

\* lines 139-143: the block-average fallback fills result, a new array
DownsampleWrites(shape, factor, has_skimage) ==
    IF IntDiv(shape[1], factor) < 1 \/ IntDiv(shape[2], factor) < 1 \/ has_skimage
    THEN {} ELSE {"local"}

\* a normalisation that subtracts and divides in place (a -= mean; a /= std)
NormalizeInPlace(owner) == {owner}

\* lines 163-168 and 249-250: a - mean and a / std allocate their results
NormalizeWrites(owner) == {}

\* lines 200-210: _naive_correlate fills corr, a new array
NaiveWrites(ishape, tshape) ==
    IF ishape[1] - tshape[1] + 1 <= 0 \/ ishape[2] - tshape[2] + 1 <= 0
    THEN {} ELSE {"local"}

\* lines 163-175: what _fft_correlate writes in place
FftWrites(image_owner, template_owner, ishape, tshape, fast_throws) ==
    NormalizeWrites(template_owner) \cup NormalizeWrites(image_owner)
        \cup (IF correlate2d_raises(ishape, tshape, fast_throws)
              THEN NaiveWrites(ishape, tshape) ELSE {})

\* line 231: basic slicing returns a view of the caller's array
RegionOwner == "low_mag_img"

(***************************************************************************)
(* best_result.  scale is None until a candidate wins: has_scale says so,  *)
(* and the other fields then hold fixed placeholders.                      *)
(***************************************************************************)
NoBest ==
    [correlation |-> InitialCorrelation, has_scale |-> FALSE, scale |-> <<0, 1>>,
     position |-> <<0, 0>>, template_shape |-> <<0, 0>>]

\* a best_result left over from an earlier call
StaleBest == best_result

\* lines 36-40: every call builds its own best_result
FreshBest == NoBest

\* a comparison that lets a later tie replace the best
ImprovesOrTies(peak_val, best) == peak_val >= best.correlation

\* line 56
Improves(peak_val, best) == peak_val > best.correlation

\* lines 55-63
FoldCandidate(best, scale, tshape, corr) ==
    LET peak_val == NpMax(corr.values)
    IN  IF Improves(peak_val, best)
        THEN [correlation |-> peak_val, has_scale |-> TRUE, scale |-> scale,
              position |-> UnravelIndex(NpArgmax(corr.values), corr.shape),
              template_shape |-> tshape]
        ELSE best

\* int(x + w / 2) for non-negative integers x and w
CenterCoord(x, w) == (2 * x + w) \div 2

\* a result with the axes exchanged
MakeResultTransposed(best) ==
    LET y == best.position[1]
        x == best.position[2]
        h == best.template_shape[1]
        w == best.template_shape[2]
    IN  [box |-> <<y, x, y + h, x + w>>,
         scale |-> best.scale,
         correlation |-> best.correlation,
         center |-> <<(2 * y + h) \div 2, (2 * x + w) \div 2>>]

\* lines 68-89
MakeResult(best) ==
    LET y == best.position[1]
        x == best.position[2]
        h == best.template_shape[1]
        w == best.template_shape[2]
    IN  [box |-> <<x, y, x + w, y + h>>,
         scale |-> best.scale,
         correlation |-> best.correlation,
         center |-> <<CenterCoord(x, w), CenterCoord(y, h)>>]

NoOutcome == [kind |-> "none"]
Returned(r) == [kind |-> "result", value |-> r]
Raised(e) == [kind |-> "error", error |-> e]

(***************************************************************************)
(* The template shapes of the candidates line 48 does not skip.            *)
(***************************************************************************)
KeptShapes(high, scale_range, steps) ==
    {t \in {_downsample(high, Linspace(scale_range[1], scale_range[2], steps)[i]) : i \in 1..steps} :
        ~TooSmall(t)}

Orderings(n) ==
    {s \in [1..n -> 1..n] : \A i, j \in 1..n : s[i] = s[j] => i = j}

\* the order in which the candidates are folded in
Orders(n) == IF parallel THEN Orderings(n) ELSE {[i \in 1..n |-> i]}

NoArgs == [none |-> TRUE]
NoGrad == [low |-> <<0, 0>>, high |-> <<0, 0>>, operator |-> "none"]

\* scale_range is (min_scale, max_scale); correlate2d cannot throw unless imported
FindInputs ==
    {a \in [low : LowDims \X LowDims, high : HighDims \X HighDims,
            scale_range : ScaleEnds \X ScaleEnds, steps : 0..MaxSteps,
            has_scipy : BOOLEAN, has_skimage : BOOLEAN, fast_throws : BOOLEAN] :
        /\ a.scale_range[1] <= a.scale_range[2]
        /\ a.fast_throws => a.has_scipy}

\* the surface inputs of a call: none is read when scipy is missing
SurfaceInputs(a) ==
    LET kept == KeptShapes(a.high, a.scale_range, a.steps)
    IN  IF a.has_scipy /\ kept # {}
        THEN [at : 0..MaxAt, peak : [kept -> Scores]]
        ELSE {[at |-> 0, peak |-> [t \in {} |-> 0]]}

(***************************************************************************)
(* The determinism observer.  With a probe call chosen, the caller repeats *)
(* the probe and, in between, searches other scale ranges and step counts  *)
(* on images of the probe's shapes, with or without scipy, and validates   *)
(* one-pixel boxes; without a probe the caller makes any call.             *)
(***************************************************************************)
ProbeHigh == <<MinTemplate + MinTemplate \div 2, MinTemplate + MinTemplate \div 2 + 1>>

Probes ==
    {[low |-> <<MinTemplate + 1, MinTemplate>>, high |-> ProbeHigh,
      scale_range |-> <<1, 2>>, steps |-> 3, has_scipy |-> TRUE, has_skimage |-> TRUE,
      fast_throws |-> FALSE, surface |-> o] :
        o \in [at : {1}, peak : [KeptShapes(ProbeHigh, <<1, 2>>, 3) -> Scores]]}

AllowedFind(a) ==
    IF probe = NoArgs THEN TRUE
    ELSE /\ a.low = probe.low /\ a.high = probe.high
         /\ a.fast_throws = probe.fast_throws

AllowedSurface(o) ==
    IF probe = NoArgs THEN TRUE
    ELSE IF DOMAIN o.peak = {} THEN TRUE
    ELSE o.at = probe.surface.at

AllowedValidate(a) ==
    IF probe = NoArgs THEN TRUE
    ELSE a.box = <<0, 0, 1, 1>> /\ a.low = <<1, 1>>

\* export_figure, lines 36-39; None is the empty path
NoPath == <<>>
NoOutputs == [high_res |-> <<>>, preview |-> NoPath]

\* no selector object; and self.result = None (line 254)
NoneResult == [is_none |-> TRUE, pixel_width |-> 0, points |-> <<>>]
NoSelector == [exists |-> FALSE, points |-> <<>>, result |-> NoneResult]

\* no experiment.json; no client loaded
NoExperiment == [exists |-> FALSE, trials |-> <<>>, baseline |-> FALSE]

Init ==
    /\ pc = "idle"
    /\ op = "none"
    /\ args = NoArgs
    /\ grad = NoGrad
    /\ scales = <<>>
    /\ pending = <<>>
    /\ best_result = NoBest
    /\ outcome = NoOutcome
    /\ parallel = FALSE
    /\ probe = NoArgs
    /\ seen = NoOutcome
    /\ files = {}
    /\ outputs = NoOutputs
    /\ selector = NoSelector
    /\ events = 0
    /\ written = {}
    /\ saved = NoExperiment
    /\ log = {}
    /\ client = NoExperiment
    /\ todo = 0

Idle == pc = "idle"

(***************************************************************************)
(* find_zoom_region, lines 32-42: entry up to the loop.                    *)
(***************************************************************************)
CallFind ==
    /\ Idle
    /\ \E a \in FindInputs :
       /\ AllowedFind(a)
       /\ \E o \in SurfaceInputs(a) : \E ord \in Orders(a.steps) :
        /\ AllowedSurface(o)
        /\ args' = [low |-> a.low, high |-> a.high, scale_range |-> a.scale_range,
                    steps |-> a.steps, has_scipy |-> a.has_scipy,
                    has_skimage |-> a.has_skimage,
                    fast_throws |-> a.fast_throws, surface |-> o]
        /\ grad' = [low |-> _sobel_magnitude(a.low, a.has_scipy).shape,
                    high |-> _sobel_magnitude(a.high, a.has_scipy).shape,
                    operator |-> _sobel_magnitude(a.low, a.has_scipy).operator]
        /\ scales' = Linspace(a.scale_range[1], a.scale_range[2], a.steps)
        /\ pending' = ord
    /\ best_result' = FreshBest
    /\ op' = "find"
    /\ pc' = "loop"
    /\ outcome' = NoOutcome
    /\ UNCHANGED <<parallel, probe, seen>>
    /\ written' = {}
    /\ UNCHANGED <<exportVars, selectorVars>>
    /\ UNCHANGED expVars

Candidate == scales[Head(pending)]
CandidateShape == _downsample(grad.high, Candidate)

\* a skip that leaves the loop (break for continue)
IterSkipBreaks ==
    /\ pc = "loop" /\ pending # <<>>
    /\ TooSmall(CandidateShape)
    /\ pending' = <<>>
    /\ UNCHANGED <<pc, op, args, grad, scales, best_result, outcome, parallel, probe, seen>>
    /\ written' = written \cup DownsampleWrites(grad.high, Candidate, args.has_skimage)
    /\ UNCHANGED <<exportVars, selectorVars>>
    /\ UNCHANGED expVars

\* lines 46-49: the candidate is skipped
IterSkip ==
    /\ pc = "loop" /\ pending # <<>>
    /\ TooSmall(CandidateShape)
    /\ pending' = Tail(pending)
    /\ UNCHANGED <<pc, op, args, grad, scales, best_result, outcome, parallel, probe, seen>>
    /\ written' = written \cup DownsampleWrites(grad.high, Candidate, args.has_skimage)
    /\ UNCHANGED <<exportVars, selectorVars>>
    /\ UNCHANGED expVars

\* line 160: correlate2d cannot be imported
IterImportError ==
    /\ pc = "loop" /\ pending # <<>>
    /\ ~TooSmall(CandidateShape)
    /\ ~args.has_scipy
    /\ pc' = "raised"
    /\ outcome' = Raised("ImportError")
    /\ UNCHANGED <<op, args, grad, scales, pending, best_result, parallel, probe, seen>>
    /\ written' = written \cup DownsampleWrites(grad.high, Candidate, args.has_skimage)
    /\ UNCHANGED <<exportVars, selectorVars>>
    /\ UNCHANGED expVars

\* lines 52-63
IterCorrelate ==
    /\ pc = "loop" /\ pending # <<>>
    /\ ~TooSmall(CandidateShape)
    /\ args.has_scipy
    /\ best_result' = FoldCandidate(best_result, Candidate, CandidateShape,
                          _fft_correlate(grad.low, CandidateShape, args.surface,
                                         args.fast_throws))
    /\ pending' = Tail(pending)
    /\ UNCHANGED <<pc, op, args, grad, scales, outcome, parallel, probe, seen>>
    /\ written' = written
          \cup DownsampleWrites(grad.high, Candidate, args.has_skimage)
          \cup FftWrites(SobelOwner("low_mag_img"),
                         DownsampleOwner(SobelOwner("high_mag_img"), grad.high, Candidate),
                         grad.low, CandidateShape, args.fast_throws)
    /\ UNCHANGED <<exportVars, selectorVars>>
    /\ UNCHANGED expVars

\* lines 65-66
FinishRaise ==
    /\ pc = "loop" /\ pending = <<>>
    /\ ~best_result.has_scale
    /\ pc' = "raised"
    /\ outcome' = Raised("ValueError")
    /\ UNCHANGED <<op, args, grad, scales, pending, best_result, parallel, probe, seen>>
    /\ UNCHANGED written
    /\ UNCHANGED <<exportVars, selectorVars>>
    /\ UNCHANGED expVars

\* lines 68-89
FinishReturn ==
    /\ pc = "loop" /\ pending = <<>>
    /\ best_result.has_scale
    /\ pc' = "returned"
    /\ outcome' = Returned(MakeResult(best_result))
    /\ UNCHANGED <<op, args, grad, scales, pending, best_result, parallel, probe, seen>>
    /\ UNCHANGED written
    /\ UNCHANGED <<exportVars, selectorVars>>
    /\ UNCHANGED expVars

(***************************************************************************)
(* a[start:stop] on an axis of length n: negative indices count from the   *)
(* end, and both ends are clamped to 0..n.                                 *)
(***************************************************************************)
SliceIndex(i, n) == IF i < 0 THEN Max(i + n, 0) ELSE Min(i, n)

SliceLen(start, stop, n) == Max(SliceIndex(stop, n) - SliceIndex(start, n), 0)

\* line 231: the shape of low_mag_img[y1:y2, x1:x2]
RegionShape(low, box) ==
    <<SliceLen(box[2], box[4], low[1]), SliceLen(box[1], box[3], low[2])>>

(***************************************************************************)
(* lines 241-246: the shape of high_resized.  resize yields the shape      *)
(* asked for; without skimage _downsample is called with the factor        *)
(* high_height / region_height.                                            *)
(***************************************************************************)
ResizedShape(high, region, has_skimage) ==
    IF has_skimage THEN region ELSE _downsample(high, <<high[1], region[1]>>)

\* the block-average fallback of _downsample averages empty blocks: NaN
EmptyBlocks(high, resized) ==
    resized # high /\ (high[1] \div resized[1] = 0 \/ high[2] \div resized[2] = 0)

\* numpy broadcasting of two 2-D shapes
Broadcasts(s, t) ==
    /\ s[1] = t[1] \/ s[1] = 1 \/ t[1] = 1
    /\ s[2] = t[2] \/ s[2] = 1 \/ t[2] = 1

\* a comparison that accepts a correlation equal to the threshold
IsValidAtLeast(correlation, threshold) == correlation >= threshold

\* line 254
IsValid(correlation, threshold) == correlation > threshold

(***************************************************************************)
(* validate_zoom_match, lines 228-260.  a.corr is the value np.mean yields *)
(* when it is a number.                                                    *)
(***************************************************************************)
validate_zoom_match(a) ==
    LET region == RegionShape(a.low, a.box)
        resized == ResizedShape(a.high, region, a.has_skimage)
        nan == ~a.has_skimage /\ EmptyBlocks(a.high, resized)
        valid == ~nan /\ IsValid(a.corr, a.threshold)
    IN  IF region[1] * region[2] = 0
        THEN Returned([valid |-> FALSE, correlation |-> 0, nan |-> FALSE,
                       message |-> "Empty region - box outside image bounds"])
        ELSE IF ~Broadcasts(region, resized)
        THEN Raised("ValueError")
        ELSE Returned([valid |-> valid, correlation |-> IF nan THEN 0 ELSE a.corr,
                       nan |-> nan,
                       message |-> IF valid THEN "Match validated"
                                   ELSE "Correlation below threshold"])

\* lines 231-252: what validate_zoom_match writes in place
validate_writes(a) ==
    LET region == RegionShape(a.low, a.box)
        factor == <<a.high[1], region[1]>>
    IN  IF region[1] * region[2] = 0 THEN {}
        ELSE (IF a.has_skimage THEN {} ELSE DownsampleWrites(a.high, factor, FALSE))
             \cup NormalizeWrites(RegionOwner)
             \cup NormalizeWrites(IF a.has_skimage THEN "local"
                                  ELSE DownsampleOwner("high_mag_img", a.high, factor))

ValidateBoxes == Coords \X Coords \X Coords \X Coords

ValidateInputs == [low : ValDims \X ValDims, box : ValidateBoxes]

\* what lines 240-260 read: nothing of it is read when the crop is empty
ValidateRest(i) ==
    IF RegionShape(i.low, i.box)[1] * RegionShape(i.low, i.box)[2] = 0
    THEN {[high |-> <<1, 1>>, threshold |-> InitialCorrelation + 1,
           has_skimage |-> TRUE, corr |-> 0]}
    ELSE [high : ValDims \X ValDims, threshold : Thresholds,
          has_skimage : BOOLEAN, corr : Scores]

CallValidate ==
    /\ Idle
    /\ \E i \in ValidateInputs :
       /\ AllowedValidate(i)
       /\ \E e \in ValidateRest(i) :
          LET a == [low |-> i.low, high |-> e.high, box |-> i.box,
                    threshold |-> e.threshold, has_skimage |-> e.has_skimage,
                    corr |-> e.corr]
          IN  /\ args' = a
              /\ outcome' = validate_zoom_match(a)
              /\ written' = validate_writes(a)
              /\ pc' = IF validate_zoom_match(a).kind = "error" THEN "raised"
                        ELSE "returned"
    /\ op' = "validate"
    /\ UNCHANGED <<grad, scales, pending, best_result, parallel, probe, seen>>
    /\ UNCHANGED <<exportVars, selectorVars>>
    /\ UNCHANGED expVars

(***************************************************************************)
(* export_figure.  A path is <<stem, suffix>>; the figure is saved under   *)
(* the stem "base".  savefig raises ValueError for a format that no        *)
(* backend of matplotlib writes ("xyz" stands for any such name).          *)
(***************************************************************************)
FormatNames == {"pdf", "png", "svg", "xyz"}
SavefigFormats == {"pdf", "png", "svg"}

\* line 30
DefaultFormats == <<"pdf", "png", "svg">>

\* line 43: base.with_suffix
HighResPath(fmt) == <<"base", fmt>>

\* line 53
PreviewPath == <<"base_preview", "png">>

SavefigRaises(fmt) == fmt \notin SavefigFormats

\* formats is a list, or None (given = FALSE)
ExportInputs ==
    {[given |-> TRUE, formats |-> f] : f \in UNION {[1..n -> FormatNames] : n \in 0..MaxFormats}}
        \cup {[given |-> FALSE, formats |-> <<>>]}

\* lines 29-39
CallExport ==
    /\ Idle
    /\ \E a \in ExportInputs :
          LET formats == IF a.given THEN a.formats ELSE DefaultFormats
          IN  /\ args' = [given |-> a.given, formats |-> formats]
              /\ pending' = [i \in 1..Len(formats) |-> i]
    /\ outputs' = NoOutputs
    /\ files' = {}
    /\ op' = "export"
    /\ pc' = "export"
    /\ outcome' = NoOutcome
    /\ UNCHANGED <<findVars, selectorVars>>
    /\ UNCHANGED expVars

ExportFormat == args.formats[Head(pending)]

\* lines 42-50: one high-resolution file is saved
ExportSave ==
    /\ pc = "export" /\ pending # <<>>
    /\ ~SavefigRaises(ExportFormat)
    /\ files' = files \cup {HighResPath(ExportFormat)}
    /\ outputs' = [outputs EXCEPT !.high_res = Append(@, HighResPath(ExportFormat))]
    /\ pending' = Tail(pending)
    /\ UNCHANGED <<pc, op, args, outcome, findVars, selectorVars>>
    /\ UNCHANGED expVars

\* lines 46-48: savefig raises, nothing catches it
ExportSaveRaises ==
    /\ pc = "export" /\ pending # <<>>
    /\ SavefigRaises(ExportFormat)
    /\ pc' = "raised"
    /\ outcome' = Raised("ValueError")
    /\ UNCHANGED <<op, args, pending, findVars, exportVars, selectorVars>>
    /\ UNCHANGED expVars

\* lines 52-64: the preview is saved and outputs returned
ExportPreview ==
    /\ pc = "export" /\ pending = <<>>
    /\ files' = files \cup {PreviewPath}
    /\ outputs' = [outputs EXCEPT !.preview = PreviewPath]
    /\ pc' = "returned"
    /\ outcome' = Returned([outputs EXCEPT !.preview = PreviewPath])
    /\ UNCHANGED <<op, args, pending, findVars, selectorVars>>
    /\ UNCHANGED expVars

(***************************************************************************)
(* InteractiveScaleBarSelector.  The caller makes a selector, runs it any  *)
(* number of times and lets go of it.  A click is <<xdata, ydata>>; the    *)
(* clicks of the model lie on the line ydata = 0.                          *)
(***************************************************************************)
ClickPoints == {<<x, 0>> : x \in 0..MaxClick}

Abs(x) == IF x < 0 THEN 0 - x ELSE x

\* lines 243-254: __init__
NewSelector ==
    /\ Idle
    /\ selector' = [exists |-> TRUE, points |-> <<>>, result |-> NoneResult]
    /\ pc' = "holding"
    /\ UNCHANGED <<op, args, pending, outcome, events, findVars, exportVars>>
    /\ UNCHANGED expVars

\* lines 264-271 and 302-303: run() up to plt.show()
RunShow ==
    /\ pc \in {"holding", "ran"}
    /\ selector' = [selector EXCEPT !.points = <<>>]
    /\ events' = 0
    /\ op' = "run"
    /\ pc' = "show"
    /\ outcome' = NoOutcome
    /\ UNCHANGED <<args, pending, findVars, exportVars>>
    /\ UNCHANGED expVars

\* lines 273-300: onclick, for a click inside the axes or outside them
onclick(self, inaxes, pt) ==
    IF ~inaxes THEN self
    ELSE LET points == Append(self.points, pt)
         IN  [self EXCEPT
                 !.points = points,
                 !.result = IF Len(points) = 2
                            THEN [is_none |-> FALSE,
                                  pixel_width |-> Abs(points[2][1] - points[1][1]),
                                  points |-> points]
                            ELSE @]

\* a button_press_event reaches the window
Click ==
    /\ pc = "show" /\ events < MaxEvents
    /\ \E inaxes \in BOOLEAN : \E pt \in ClickPoints :
          selector' = onclick(selector, inaxes, pt)
    /\ events' = events + 1
    /\ UNCHANGED <<pc, op, args, pending, outcome, findVars, exportVars>>
    /\ UNCHANGED expVars

\* lines 303-305: the window is closed, plt.show() returns, run() returns
CloseWindow ==
    /\ pc = "show"
    /\ pc' = "ran"
    /\ outcome' = Returned(selector.result)
    /\ events' = 0
    /\ UNCHANGED <<op, args, pending, selector, findVars, exportVars>>
    /\ UNCHANGED expVars

\* the caller lets go of the selector
Release ==
    /\ pc \in {"holding", "ran"}
    /\ pc' = "idle"
    /\ op' = "none"
    /\ outcome' = NoOutcome
    /\ selector' = NoSelector
    /\ UNCHANGED <<args, pending, events, findVars, exportVars>>
    /\ UNCHANGED expVars

(***************************************************************************)
(* The call is over: its locals are gone, the caller may call again.       *)
(***************************************************************************)
Exit ==
    /\ pc \in {"returned", "raised"}
    /\ pc' = "idle"
    /\ op' = "none"
    /\ args' = NoArgs
    /\ grad' = NoGrad
    /\ scales' = <<>>
    /\ pending' = <<>>
    /\ outcome' = NoOutcome
    /\ best_result' = FreshBest
    /\ seen' = IF args = probe THEN outcome ELSE seen
    /\ UNCHANGED <<parallel, probe>>
    /\ files' = {}
    /\ outputs' = NoOutputs
    /\ written' = {}
    /\ UNCHANGED selectorVars
    /\ UNCHANGED expVars

Next ==
    \/ CallFind
    \/ IterSkip
    \/ IterImportError
    \/ IterCorrelate
    \/ FinishRaise
    \/ FinishReturn
    \/ CallValidate
    \/ CallExport
    \/ ExportSave
    \/ ExportSaveRaises
    \/ ExportPreview
    \/ NewSelector
    \/ RunShow
    \/ Click
    \/ CloseWindow
    \/ Release
    \/ Exit

Spec == Init /\ [][Next]_vars

\* the caller repeats a probe call
InitDet ==
    /\ pc = "idle"
    /\ op = "none"
    /\ args = NoArgs
    /\ grad = NoGrad
    /\ scales = <<>>
    /\ pending = <<>>
    /\ best_result = NoBest
    /\ outcome = NoOutcome
    /\ parallel = FALSE
    /\ probe \in Probes
    /\ seen = NoOutcome
    /\ files = {}
    /\ outputs = NoOutputs
    /\ selector = NoSelector
    /\ events = 0
    /\ written = {}
    /\ saved = NoExperiment
    /\ log = {}
    /\ client = NoExperiment
    /\ todo = 0

SpecDet == InitDet /\ [][Next]_vars

\* the candidates are folded in in any order
InitAnyOrder ==
    /\ pc = "idle"
    /\ op = "none"
    /\ args = NoArgs
    /\ grad = NoGrad
    /\ scales = <<>>
    /\ pending = <<>>
    /\ best_result = NoBest
    /\ outcome = NoOutcome
    /\ parallel = TRUE
    /\ probe = NoArgs
    /\ seen = NoOutcome
    /\ files = {}
    /\ outputs = NoOutputs
    /\ selector = NoSelector
    /\ events = 0
    /\ written = {}
    /\ saved = NoExperiment
    /\ log = {}
    /\ client = NoExperiment
    /\ todo = 0

SpecAnyOrder == InitAnyOrder /\ [][Next]_vars

(***************************************************************************)
(* The internal functions, called on their own.  A call reads its          *)
(* arguments, computes and returns; Exit hands control back.               *)
(***************************************************************************)
MaxDim == 5         \* _downsample is called on shapes up to MaxDim x MaxDim
MaxFactor == 3      \* with factors n/d, n and d in 1..MaxFactor

\* the caller is idle; the function takes a, computes result and returns it
PureCall(name, a, result) ==
    /\ op' = name
    /\ args' = a
    /\ outcome' = result
    /\ pc' = IF result.kind = "error" THEN "raised" ELSE "returned"
    /\ UNCHANGED <<pending, findVars, exportVars, selectorVars>>
    /\ UNCHANGED expVars

\* the indices a[start:stop] selects on an axis of length n
SliceOf(start, stop, n) ==
    {k \in 0..(n - 1) : SliceIndex(start, n) <= k /\ k < SliceIndex(stop, n)}

\* a block size rounded up
BlockSizeCeil(n, new_n) == (n + new_n - 1) \div new_n

\* lines 137-138
BlockSize(n, new_n) == n \div new_n

(***************************************************************************)
(* _downsample, lines 125-144, by the pixels each output cell averages:    *)
(* cells[<<i, j>>] is the set of <<row, col>> of                           *)
(* img[i*block_h:(i+1)*block_h, j*block_w:(j+1)*block_w].                  *)
(***************************************************************************)
DownsampleCells(shape, factor, has_skimage) ==
    LET new_h == IntDiv(shape[1], factor)
        new_w == IntDiv(shape[2], factor)
    IN  IF new_h < 1 \/ new_w < 1
        THEN [path |-> "unchanged", grid |-> shape, cells |-> <<>>]
        ELSE IF has_skimage
        THEN [path |-> "resize", grid |-> <<new_h, new_w>>, cells |-> <<>>]
        ELSE LET block_h == BlockSize(shape[1], new_h)
                 block_w == BlockSize(shape[2], new_w)
             IN  [path |-> "blocks", grid |-> <<new_h, new_w>>,
                  cells |-> [c \in (0..(new_h - 1)) \X (0..(new_w - 1)) |->
                      SliceOf(c[1] * block_h, (c[1] + 1) * block_h, shape[1])
                          \X SliceOf(c[2] * block_w, (c[2] + 1) * block_w, shape[2])]]

DownsampleInputs ==
    [shape : (1..MaxDim) \X (1..MaxDim), factor : (1..MaxFactor) \X (1..MaxFactor),
     has_skimage : BOOLEAN]

CallDownsample ==
    /\ Idle
    /\ \E a \in DownsampleInputs :
        PureCall("_downsample", a, Returned(DownsampleCells(a.shape, a.factor, a.has_skimage)))

MaxImg == 2         \* _sobel_magnitude is called on images up to MaxImg x MaxImg
MaxPix == 1         \* with pixel values 0..MaxPix

\* a 2D array: its shape and its values in row-major order
Cells(shape) == (0..(shape[1] - 1)) \X (0..(shape[2] - 1))

Array(shape, f) ==
    [shape |-> shape,
     values |-> [k \in 1..(shape[1] * shape[2]) |->
                    f[<<(k - 1) \div shape[2], (k - 1) % shape[2]>>]]]

Px(a, r, c) == a.values[r * a.shape[2] + c + 1]

Images(max_rows, max_cols, max_pix) ==
    UNION {[shape : {<<h, w>>}, values : [1..(h * w) -> 0..max_pix]] :
              <<h, w>> \in (1..max_rows) \X (1..max_cols)}

\* scipy.ndimage mode='reflect': d c b a | a b c d | d c b a
Reflect(i, n) == IF i < 0 THEN -i - 1 ELSE IF i >= n THEN 2 * n - 1 - i ELSE i

\* correlate1d(a, [w0, w1, w2], axis, mode='reflect')
Correlate1d(a, w, axis) ==
    LET at(r, c, d) == IF axis = 1 THEN Px(a, r, Reflect(c + d, a.shape[2]))
                       ELSE Px(a, Reflect(r + d, a.shape[1]), c)
        f(r, c) == w[1] * at(r, c, -1) + w[2] * at(r, c, 0) + w[3] * at(r, c, 1)
    IN  Array(a.shape, [p \in Cells(a.shape) |-> f(p[1], p[2])])

\* scipy.ndimage.sobel(img, axis): the derivative along axis, smoothed along the other
Sobel(img, axis) == Correlate1d(Correlate1d(img, <<-1, 0, 1>>, axis), <<1, 2, 1>>, 1 - axis)

\* zeros put in front of the first column (axis 1) or row (axis 0)
PrependZeros(img, axis) ==
    LET f(r, c) == IF axis = 1 THEN (IF c = 0 THEN 0 ELSE Px(img, r, c - 1))
                   ELSE (IF r = 0 THEN 0 ELSE Px(img, r - 1, c))
        shape == IF axis = 1 THEN <<img.shape[1], img.shape[2] + 1>>
                 ELSE <<img.shape[1] + 1, img.shape[2]>>
    IN  Array(shape, [p \in Cells(shape) |-> f(p[1], p[2])])

\* lines 109-110, prepend=img[:, :1] / img[:1, :]: the first column (row) put in front
Prepend(img, axis) ==
    LET f(r, c) == IF axis = 1 THEN Px(img, r, Max(c - 1, 0)) ELSE Px(img, Max(r - 1, 0), c)
        shape == IF axis = 1 THEN <<img.shape[1], img.shape[2] + 1>>
                 ELSE <<img.shape[1] + 1, img.shape[2]>>
    IN  Array(shape, [p \in Cells(shape) |-> f(p[1], p[2])])

\* np.diff(a, axis): a[.., k + 1] - a[.., k]
Diff(a, axis) ==
    LET f(r, c) == IF axis = 1 THEN Px(a, r, c + 1) - Px(a, r, c)
                   ELSE Px(a, r + 1, c) - Px(a, r, c)
        shape == IF axis = 1 THEN <<a.shape[1], a.shape[2] - 1>>
                 ELSE <<a.shape[1] - 1, a.shape[2]>>
    IN  Array(shape, [p \in Cells(shape) |-> f(p[1], p[2])])

(***************************************************************************)
(* _sobel_magnitude, lines 102-111, on pixels.  The magnitude map is       *)
(* sqrt(radicand), element by element; gx and gy are kept for inspection.  *)
(***************************************************************************)
SobelMagnitudeOf(img, has_scipy) ==
    LET gx == IF has_scipy THEN Sobel(img, 1) ELSE Diff(Prepend(img, 1), 1)
        gy == IF has_scipy THEN Sobel(img, 0) ELSE Diff(Prepend(img, 0), 0)
        f(r, c) == Px(gx, r, c) * Px(gx, r, c) + Px(gy, r, c) * Px(gy, r, c)
    IN  [shape |-> gx.shape,
         radicand |-> Array(gx.shape, [p \in Cells(gx.shape) |-> f(p[1], p[2])]).values,
         gx |-> gx, gy |-> gy]

CallSobel ==
    /\ Idle
    /\ \E img \in Images(MaxImg, MaxImg, MaxPix) : \E has_scipy \in BOOLEAN :
        PureCall("_sobel_magnitude", [img |-> img, has_scipy |-> has_scipy],
                 Returned(SobelMagnitudeOf(img, has_scipy)))

MaxCorrRows == 2    \* _fft_correlate is called on images up to MaxCorrRows x MaxCorrCols
MaxCorrCols == 3
MaxTplRows == 1     \* and templates up to MaxTplRows x MaxTplCols
MaxTplCols == 2
MaxCorrPix == 2     \* with pixel values 0..MaxCorrPix

RECURSIVE SeqSum(_)
SeqSum(s) == IF s = <<>> THEN 0 ELSE Head(s) + SeqSum(Tail(s))

(***************************************************************************)
(* Lines 163-168, a = (a - mean) / (std + 1e-8), kept exact: with N the    *)
(* size and S the sum of a, the entries N*a[k] - S are N*(a[k] - mean);    *)
(* q is the sum of their squares, N*N*N*var.  Element k of the normalised  *)
(* array is values[k] * sqrt(n / q), or 0 when q = 0 (a constant array).   *)
(***************************************************************************)
NormalizeOf(a) ==
    LET N == Len(a.values)
        S == SeqSum(a.values)
        c == [k \in 1..N |-> N * a.values[k] - S]
    IN  [shape |-> a.shape, values |-> c, n |-> N,
         q |-> SeqSum([k \in 1..N |-> c[k] * c[k]])]

\* the window of the template's shape at <<i, j>>, flattened (line 207)
Window(image, tshape, i, j) ==
    [k \in 1..(tshape[1] * tshape[2]) |->
        Px(image, i + ((k - 1) \div tshape[2]), j + ((k - 1) % tshape[2]))]

DotOf(u, v) == SeqSum([k \in 1..Len(u) |-> u[k] * v[k]])

\* the sliding dot products of a small array over a large one
SlidingDots(large, small) ==
    LET f(i, j) == DotOf(Window(large, small.shape, i, j), small.values)
        shape == <<large.shape[1] - small.shape[1] + 1, large.shape[2] - small.shape[2] + 1>>
    IN  Array(shape, [p \in Cells(shape) |-> f(p[1], p[2])])

\* out[::-1, ::-1]
Reversed(a) ==
    [shape |-> a.shape,
     values |-> [k \in 1..Len(a.values) |-> a.values[Len(a.values) + 1 - k]]]

(***************************************************************************)
(* scipy.signal.correlate2d(image, template, mode='valid') where it does   *)
(* not raise: with the template inside the image, the sliding dot          *)
(* products; with the image inside the template the operands are swapped   *)
(* and the output reversed along both axes.                                *)
(***************************************************************************)
Correlate2dValid(image, template) ==
    IF Fits(template.shape, image.shape)
    THEN SlidingDots(image, template)
    ELSE Reversed(SlidingDots(template, image))

(***************************************************************************)
(* A correlation surface on pixels.  Score k is                            *)
(*     dots[k] * sqrt(unit[1] / (unit[2] * norms[k])).                     *)
(***************************************************************************)
ZeroSurface ==
    [shape |-> <<1, 1>>, dots |-> <<0>>, norms |-> <<1>>, unit |-> <<0, 1>>, path |-> "naive"]

\* lines 191-212, on normalised operands: the cosine of window and template
NaiveCorrelateOf(image, template) ==
    LET out_h == image.shape[1] - template.shape[1] + 1
        out_w == image.shape[2] - template.shape[2] + 1
    IN  IF out_h <= 0 \/ out_w <= 0 THEN ZeroSurface
        ELSE LET dots == SlidingDots(image, template)
                 window_norm2(i, j) ==
                     LET w == Window(image, template.shape, i, j) IN DotOf(w, w)
                 template_norm2 == DotOf(template.values, template.values)
                 positive(i, j) == window_norm2(i, j) > 0 /\ template_norm2 > 0
                 d(i, j) == IF positive(i, j) THEN Px(dots, i, j) ELSE 0
                 n(i, j) == IF positive(i, j) THEN window_norm2(i, j) ELSE 1
             IN  [shape |-> dots.shape,
                  dots |-> Array(dots.shape, [p \in Cells(dots.shape) |-> d(p[1], p[2])]).values,
                  norms |-> Array(dots.shape, [p \in Cells(dots.shape) |-> n(p[1], p[2])]).values,
                  unit |-> IF template_norm2 > 0 THEN <<1, template_norm2>> ELSE <<0, 1>>,
                  path |-> "naive"]

\* lines 170-177, on the normalised operands: plain sums of products
CorrelateNormalized(im, t, fast_throws) ==
    IF correlate2d_raises(im.shape, t.shape, fast_throws)
    THEN NaiveCorrelateOf(im, t)
    ELSE LET corr == Correlate2dValid(im, t)
         IN  [shape |-> corr.shape,
              dots |-> corr.values,
              norms |-> [k \in 1..Len(corr.values) |-> 1],
              unit |-> IF im.q * t.q > 0 THEN <<im.n * t.n, im.q * t.q>> ELSE <<0, 1>>,
              path |-> "fast"]

\* lines 160-177: both operands are normalised, once, then correlated
FftCorrelateOf(image, template, fast_throws) ==
    CHOOSE corr \in {CorrelateNormalized(im, t, fast_throws) :
                        im \in {NormalizeOf(image)}, t \in {NormalizeOf(template)}} : TRUE

CallCorrelate ==
    /\ Idle
    /\ \E image \in Images(MaxCorrRows, MaxCorrCols, MaxCorrPix) :
        \E template \in Images(MaxTplRows, MaxTplCols, MaxCorrPix) : \E fast_throws \in BOOLEAN :
            PureCall("_fft_correlate",
                     [image |-> image, template |-> template, fast_throws |-> fast_throws],
                     Returned(FftCorrelateOf(image, template, fast_throws)))

NextCorrelate ==
    \/ CallCorrelate
    \/ Exit

SpecCorrelate == Init /\ [][NextCorrelate]_vars

MaxWindow == 12     \* savgol_smooth is asked for windows 1..MaxWindow
MaxData == 12       \* on data of length 1..MaxData, or LongData
LongData == 120

DefaultWindowDivisor == 10
DefaultWindowFloor == 11

\* the clamp without the parity rule
SavgolWindowUnadjusted(window, n) ==
    LET odd == IF window % 2 = 0 THEN window + 1 ELSE window
    IN  IF odd > n THEN n ELSE odd

(***************************************************************************)
(* savgol_smooth, lines 57-65: the window length handed to savgol_filter   *)
(* for a requested window and data of length n.                            *)
(***************************************************************************)
SavgolWindow(window, n) ==
    LET odd == IF window % 2 = 0 THEN window + 1 ELSE window
    IN  IF odd > n THEN (IF n % 2 = 1 THEN n ELSE n - 1) ELSE odd

\* detrend_data: the default window when none is given
DetrendWindow(n) ==
    LET window == Max(n \div DefaultWindowDivisor, DefaultWindowFloor)
    IN  IF window % 2 = 0 THEN window + 1 ELSE window

DataLengths == (1..MaxData) \cup {LongData}

CallSavgol ==
    /\ Idle
    /\ \E window \in 1..MaxWindow : \E n \in DataLengths :
        PureCall("savgol_smooth", [window |-> window, n |-> n],
                 Returned([window_length |-> SavgolWindow(window, n)]))

\* detrend_data with window=None (0 here) or a window of the caller's
CallDetrend ==
    /\ Idle
    /\ \E window \in 0..MaxWindow : \E n \in DataLengths :
        PureCall("detrend_data", [window |-> window, n |-> n],
                 Returned([window_length |->
                     SavgolWindow(IF window = 0 THEN DetrendWindow(n) ELSE window, n)]))

MaxRows == 3        \* load_sem_tiff reads images of 1..MaxRows rows
Normalizer == 255

\* the sample depths of a grayscale TIFF, and the largest value of each
PixelDepths == {8, 16}
MaxValue(bits) == 2 ^ bits - 1

(***************************************************************************)
(* load_sem_tiff, lines 29-39, by the number of rows and the largest       *)
(* pixel value (a rational <<num, den>>) of the array it returns.          *)
(***************************************************************************)
LoadSemTiff(a) ==
    [peak |-> IF a.peak > 1 THEN <<a.peak, Normalizer>> ELSE <<a.peak, 1>>,
     rows |-> IF a.crop_info_bar /\ a.crop_y < a.rows
              THEN SliceLen(0, a.crop_y, a.rows) ELSE a.rows]

\* the file: its depth, its rows and its brightest pixel; crop_y is a row of the image or below it
LoadInputs ==
    UNION {[bits : {b}, rows : 1..MaxRows, peak : {0, 1, MaxValue(b)},
            crop_info_bar : BOOLEAN, crop_y : 0..(MaxRows + 1)] : b \in PixelDepths}

CallLoad ==
    /\ Idle
    /\ \E a \in LoadInputs : PureCall("load_sem_tiff", a, Returned(LoadSemTiff(a)))

NextPure ==
    \/ CallDownsample
    \/ CallSobel
    \/ CallSavgol
    \/ CallDetrend
    \/ CallLoad
    \/ Exit

SpecPure == Init /\ [][NextPure]_vars

(***************************************************************************)
(* experiment_manager.py.  An experiment is the sequence of its trials'    *)
(* statuses (trial k of the model is Ax trial k - 1) and whether a         *)
(* baseline is attached.  Every command loads the client from              *)
(* experiment.json, changes it, saves it and appends to experiment_log.md; *)
(* a command may die between any two of these steps (an exception of Ax,   *)
(* a malformed data entry, a full disk, a kill).                           *)
(***************************************************************************)
MaxTrials == 3      \* an experiment holds up to MaxTrials trials

TrialsLeft == MaxTrials - Len(saved.trials)

\* the entries a command appends to experiment_log.md
LogEntry(kind, trial) == [kind |-> kind, trial |-> trial]

\* lines 32-161: create
CreateExperiment ==
    /\ Idle /\ ~saved.exists
    /\ saved' = [exists |-> TRUE, trials |-> <<>>, baseline |-> FALSE]
    /\ log' = {}
    /\ UNCHANGED <<pc, op, args, pending, outcome, client, todo>>
    /\ UNCHANGED <<findVars, exportVars, selectorVars>>

\* attach_data, lines 177-189: the data file holds n entries
StartAttach ==
    /\ Idle /\ saved.exists
    /\ \E n \in 1..TrialsLeft : todo' = n
    /\ client' = saved
    /\ op' = "attach"
    /\ pc' = "attach"
    /\ UNCHANGED <<args, pending, outcome, saved, log>>
    /\ UNCHANGED <<findVars, exportVars, selectorVars>>

\* lines 191-200: one entry is attached, completed and logged
AttachEntry ==
    /\ pc = "attach" /\ todo > 0
    /\ client' = [client EXCEPT !.trials = Append(@, "completed")]
    /\ log' = log \cup {LogEntry("attached", Len(client.trials) + 1)}
    /\ todo' = todo - 1
    /\ UNCHANGED <<pc, op, args, pending, outcome, saved>>
    /\ UNCHANGED <<findVars, exportVars, selectorVars>>

\* line 202: the state is saved after the loop
AttachSave ==
    /\ pc = "attach" /\ todo = 0
    /\ saved' = client
    /\ client' = NoExperiment
    /\ pc' = "idle"
    /\ op' = "none"
    /\ UNCHANGED <<args, pending, outcome, log, todo>>
    /\ UNCHANGED <<findVars, exportVars, selectorVars>>

\* a command has loaded the client and changed it; entries is what it will log
Changed(name, changed, entries) ==
    /\ client' = changed
    /\ op' = name
    /\ args' = [entries |-> entries]
    /\ pc' = "changed"
    /\ UNCHANGED <<pending, outcome, saved, log, todo>>
    /\ UNCHANGED <<findVars, exportVars, selectorVars>>

\* get_next_trials, lines 219-221: n trials are suggested
StartNext ==
    /\ Idle /\ saved.exists
    /\ \E n \in 1..TrialsLeft :
        Changed("next",
                [saved EXCEPT !.trials = @ \o [k \in 1..n |-> "running"]],
                {LogEntry("suggested", Len(saved.trials) + k) : k \in 1..n})

\* complete_trial, lines 258-268
StartComplete ==
    /\ Idle /\ saved.exists
    /\ \E t \in 1..Len(saved.trials) :
        /\ saved.trials[t] = "running"
        /\ Changed("complete", [saved EXCEPT !.trials[t] = "completed"],
                   {LogEntry("completed", t)})

\* mark_failed, lines 350-351
StartFailed ==
    /\ Idle /\ saved.exists
    /\ \E t \in 1..Len(saved.trials) :
        /\ saved.trials[t] = "running"
        /\ Changed("failed", [saved EXCEPT !.trials[t] = "failed"],
                   {LogEntry("failed", t)})

\* mark_abandoned, lines 379-380
StartAbandoned ==
    /\ Idle /\ saved.exists
    /\ \E t \in 1..Len(saved.trials) :
        /\ saved.trials[t] = "running"
        /\ Changed("abandoned", [saved EXCEPT !.trials[t] = "abandoned"],
                   {LogEntry("abandoned", t)})

\* set_baseline, lines 483-485
StartBaseline ==
    /\ Idle /\ saved.exists /\ ~saved.baseline
    /\ Changed("baseline", [saved EXCEPT !.baseline = TRUE], {LogEntry("baseline", 0)})

\* client.save_to_json_file (lines 224, 271, 352, 381, 488)
SaveState ==
    /\ pc = "changed"
    /\ saved' = client
    /\ pc' = "saved"
    /\ UNCHANGED <<op, args, pending, outcome, log, client, todo>>
    /\ UNCHANGED <<findVars, exportVars, selectorVars>>

\* the log is appended to (lines 227-232, 274-278, 355-360, 384-389, 491-496)
AppendLog ==
    /\ pc = "saved"
    /\ log' = log \cup args.entries
    /\ client' = NoExperiment
    /\ pc' = "idle"
    /\ op' = "none"
    /\ args' = NoArgs
    /\ UNCHANGED <<pending, outcome, saved, todo>>
    /\ UNCHANGED <<findVars, exportVars, selectorVars>>

\* the command dies where it stands; the files stay as they are
CommandFails ==
    /\ pc \in {"attach", "changed", "saved"}
    /\ client' = NoExperiment
    /\ todo' = 0
    /\ pc' = "idle"
    /\ op' = "none"
    /\ args' = NoArgs
    /\ UNCHANGED <<pending, outcome, saved, log>>
    /\ UNCHANGED <<findVars, exportVars, selectorVars>>

NextExperiment ==
    \/ CreateExperiment
    \/ StartAttach
    \/ AttachEntry
    \/ AttachSave
    \/ StartNext
    \/ StartComplete
    \/ StartFailed
    \/ StartAbandoned
    \/ StartBaseline
    \/ SaveState
    \/ AppendLog
    \/ CommandFails

SpecExperiment == Init /\ [][NextExperiment]_vars

(***************************************************************************)
(* What the claims speak of, read off the arguments of the call.           *)
(***************************************************************************)
FindDone == op = "find" /\ pc \in {"returned", "raised"}
FindReturned == op = "find" /\ pc = "returned"
ValidateDone == op = "validate" /\ pc \in {"returned", "raised"}

ScaleAt(i) == Linspace(args.scale_range[1], args.scale_range[2], args.steps)[i]

\* the size int(H / scale) x int(W / scale) the candidate asks for
ImpliedShape(i) == <<IntDiv(args.high[1], ScaleAt(i)), IntDiv(args.high[2], ScaleAt(i))>>

ShapeAt(i) == _downsample(args.high, ScaleAt(i))

\* the candidates line 48 does not skip
Evaluated == {i \in 1..args.steps : ~TooSmall(ShapeAt(i))}

SurfaceOf(i) == _fft_correlate(args.low, ShapeAt(i), args.surface, args.fast_throws)

\* the correlation surfaces of the call, by candidate
Surfaces == [i \in Evaluated |-> SurfaceOf(i)]

\* their maxima
Peaks(surfaces) == [i \in DOMAIN surfaces |-> NpMax(surfaces[i].values)]

ScaleLeq(p, q) == p[1] * q[2] <= q[1] * p[2]

\* the score of a surface at <<row, col>>
ScoreAt(surface, pos) == surface.values[pos[1] * surface.shape[2] + pos[2] + 1]

InSurface(surface, pos) ==
    /\ 0 <= pos[1] /\ pos[1] < surface.shape[1]
    /\ 0 <= pos[2] /\ pos[2] < surface.shape[2]

\* the first candidate, in ascending order, that attains the global maximum
WinnerIndex(peaks) ==
    CHOOSE i \in DOMAIN peaks :
        /\ \A j \in DOMAIN peaks : peaks[j] <= peaks[i]
        /\ \A j \in DOMAIN peaks : j < i => peaks[j] < peaks[i]

\* the first position, in row-major order, of the peak of a surface
PositionIn(surface) == UnravelIndex(NpArgmax(surface.values), surface.shape)

\* C1: whenever find_zoom_region returns, its box lies inside the low-mag
\* image and is not degenerate: 0 <= x1 < x2 <= width and 0 <= y1 < y2 <= height.
C1_BoxInsideLowMag ==
    FindReturned =>
        LET b == outcome.value.box
        IN  /\ 0 <= b[1] /\ b[1] < b[3] /\ b[3] <= args.low[2]
            /\ 0 <= b[2] /\ b[2] < b[4] /\ b[4] <= args.low[1]

\* C2: when every generated scale candidate asks for a template smaller than
\* 10x10 (or there is no candidate), find_zoom_region fails with the no-match
\* ValueError and returns nothing (stated with scipy installed, so that no
\* ImportError stands in the way).
C2_ExhaustedRangeRaises ==
    (FindDone /\ args.has_scipy /\ \A i \in 1..args.steps : TooSmall(ImpliedShape(i)))
        => outcome = Raised("ValueError")

\* C3: find_zoom_region raises the no-match ValueError only when no candidate
\* produced a correlation surface, whatever the scores of the surfaces.
C3_RaisesOnlyOnTotalFailure ==
    (FindDone /\ outcome = Raised("ValueError")) => Evaluated = {}

\* C4: the reported correlation is the maximum score over every evaluated
\* candidate and every position, it is attained at the reported position of a
\* candidate with the reported scale, and no candidate that attains it has a
\* smaller scale.
C4_GlobalArgmax ==
    FindReturned =>
        LET r == outcome.value
            pos == <<r.box[2], r.box[1]>>
            surfaces == Surfaces
            peaks == Peaks(surfaces)
        IN  /\ \A i \in Evaluated : peaks[i] <= r.correlation
            /\ \E i \in Evaluated :
                  /\ ScaleAt(i) = r.scale
                  /\ InSurface(surfaces[i], pos)
                  /\ ScoreAt(surfaces[i], pos) = r.correlation
            /\ \A j \in Evaluated : peaks[j] = r.correlation => ScaleLeq(r.scale, ScaleAt(j))

\* C4 witness: a call returned after two candidates of different scales and
\* template shapes tied for the maximum, the peak not in the first column.
C4_Witness ==
    /\ FindReturned
    /\ \E i, j \in Evaluated :
          /\ i < j /\ ScaleAt(i) # ScaleAt(j) /\ ShapeAt(i) # ShapeAt(j)
          /\ Peaks(Surfaces)[i] = outcome.value.correlation
          /\ Peaks(Surfaces)[j] = outcome.value.correlation
    /\ outcome.value.box[1] > 0

\* C5 as stated: box = (col, row, col+w, row+h) and center = (col + w/2,
\* row + h/2) exactly, with the winning scale and its peak correlation.
C5_CenterExact ==
    FindReturned =>
        LET r == outcome.value
            surfaces == Surfaces
            peaks == Peaks(surfaces)
            win == WinnerIndex(peaks)
            at == PositionIn(surfaces[win])
            row == at[1]
            col == at[2]
            h == ShapeAt(win)[1]
            w == ShapeAt(win)[2]
        IN  /\ r.box = <<col, row, col + w, row + h>>
            /\ 2 * r.center[1] = 2 * col + w
            /\ 2 * r.center[2] = 2 * row + h
            /\ r.scale = ScaleAt(win)
            /\ r.correlation = peaks[win]

\* C5 as amended: box = (col, row, col+w, row+h) and center = (col + w/2,
\* row + h/2) truncated to integers, with the winning scale and its peak
\* correlation.
C5_CenterTruncated ==
    FindReturned =>
        LET r == outcome.value
            surfaces == Surfaces
            peaks == Peaks(surfaces)
            win == WinnerIndex(peaks)
            at == PositionIn(surfaces[win])
            row == at[1]
            col == at[2]
            h == ShapeAt(win)[1]
            w == ShapeAt(win)[2]
        IN  /\ r.box = <<col, row, col + w, row + h>>
            /\ r.center[1] = (2 * col + w) \div 2
            /\ r.center[2] = (2 * row + h) \div 2
            /\ r.scale = ScaleAt(win)
            /\ r.correlation = peaks[win]

\* C5 witness: a call returned a box of odd width and even height whose
\* corner has column > row.
C5_Witness ==
    /\ FindReturned
    /\ (outcome.value.box[3] - outcome.value.box[1]) % 2 = 1
    /\ (outcome.value.box[4] - outcome.value.box[2]) % 2 = 0
    /\ outcome.value.box[1] > outcome.value.box[2]

EmptyResult ==
    Returned([valid |-> FALSE, correlation |-> 0, nan |-> FALSE,
              message |-> "Empty region - box outside image bounds"])

\* the box has no pixel in common with the image, or is reversed or flat
BoxOutsideOrReversed(low, box) ==
    \/ box[1] >= box[3] \/ box[2] >= box[4]
    \/ box[3] <= 0 \/ box[4] <= 0
    \/ box[1] >= low[2] \/ box[2] >= low[1]

\* C6: for every box entirely outside the image, and every box with x1 >= x2
\* or y1 >= y2, negative coordinates included, validate_zoom_match returns
\* valid = false, correlation = 0 and the empty-region message.
C6_EmptyCropReported ==
    (ValidateDone /\ BoxOutsideOrReversed(args.low, args.box)) => outcome = EmptyResult

C8_Determinism ==
    (FindDone /\ args = probe /\ seen # NoOutcome) => outcome = seen

\* C8 witness: the probe call returned a result a second time.
C8_Witness ==
    /\ FindReturned /\ args = probe /\ seen # NoOutcome
    /\ seen.kind = "result"

C10_BackendNeverSurfaced ==
    (FindDone \/ ValidateDone) => outcome # Raised("ImportError")

\* the loop is about to correlate the candidate at the head of pending
Correlating ==
    pc = "loop" /\ pending # <<>> /\ ~TooSmall(CandidateShape) /\ args.has_scipy

\* what _fft_correlate returns for that candidate
CorrOfCandidate ==
    _fft_correlate(grad.low, CandidateShape, args.surface, args.fast_throws)

\* a correlation surface, as either path of _fft_correlate returns it
IsSurface(c) == c.path \in {"fast", "naive"} /\ Len(c.values) = c.shape[1] * c.shape[2]

\* C11: correlating an image with a template larger than the image in either
\* dimension fails: it yields no correlation surface.
C11_OversizeTemplateFails ==
    (Correlating /\ ~Fits(CandidateShape, grad.low)) => ~IsSurface(CorrOfCandidate)

\* C12: when the template fits in the image, the surface has shape
\* (imageH - templateH + 1, imageW - templateW + 1), one score per position,
\* on the fast path and on the sliding-window fallback.
C12_ValidModeShape ==
    (Correlating /\ Fits(CandidateShape, grad.low)) =>
        /\ CorrOfCandidate.shape = <<grad.low[1] - CandidateShape[1] + 1,
                                     grad.low[2] - CandidateShape[2] + 1>>
        /\ Len(CorrOfCandidate.values) =
               (grad.low[1] - CandidateShape[1] + 1) * (grad.low[2] - CandidateShape[2] + 1)

\* C12 witness: a fitting template is about to be correlated on the fallback
\* path, the surface having more rows than columns.
C12_Witness ==
    /\ Correlating /\ Fits(CandidateShape, grad.low)
    /\ CorrOfCandidate.path = "naive"
    /\ CorrOfCandidate.shape[1] > CorrOfCandidate.shape[2]

\* _downsample returns its input unchanged for the candidate at the head of pending
ReturnedUnchanged ==
    IntDiv(grad.high[1], Candidate) < 1 \/ IntDiv(grad.high[2], Candidate) < 1

\* C17: a candidate for which _downsample returns its input unchanged is
\* skipped: the loop moves on without touching the best result (stated with
\* scipy installed).
C17_UnchangedCandidateSkipped ==
    [][(pc = "loop" /\ pending # <<>> /\ args.has_scipy /\ ReturnedUnchanged)
          => (best_result' = best_result /\ pc' = "loop" /\ pending' = Tail(pending))]_vars

\* C18: a candidate whose template exceeds the low-mag image in either
\* dimension is skipped: the loop moves on without touching the best result.
C18_OversizeCandidateSkipped ==
    [][(Correlating /\ ~Fits(CandidateShape, grad.low))
          => (best_result' = best_result /\ pc' = "loop" /\ pending' = Tail(pending))]_vars

\* C19: a candidate whose template is under 10 pixels high or wide is skipped
\* silently: the best result is unchanged, nothing is raised or returned, and
\* the loop goes on with the candidates that follow.
C19_SmallCandidateSkipped ==
    [][(pc = "loop" /\ pending # <<>> /\ TooSmall(CandidateShape))
          => /\ best_result' = best_result
             /\ pc' = "loop" /\ outcome' = outcome
             /\ pending' = Tail(pending)]_vars

\* C19 witness: a candidate was skipped for its size and the loop is about to
\* correlate a later one.
C19_Witness ==
    /\ Correlating
    /\ \E i \in 1..args.steps :
          /\ i < Head(pending)
          /\ TooSmall(ShapeAt(i))

\* the crop of the validator is not empty
NonEmptyCrop ==
    RegionShape(args.low, args.box)[1] * RegionShape(args.low, args.box)[2] # 0

\* C20: for a non-empty crop, the resampled high-mag image has the crop's
\* shape on both resize paths, and the elementwise product is defined.
C20_ResizedToCropShape ==
    (ValidateDone /\ NonEmptyCrop) =>
        /\ ResizedShape(args.high, RegionShape(args.low, args.box), args.has_skimage)
               = RegionShape(args.low, args.box)
        /\ outcome.kind # "error"

ExportDone == op = "export" /\ pc \in {"returned", "raised"}

\* C15: export_figure always writes the preview file and returns its path in
\* outputs['preview'], whatever the formats list, failing saves included.
C15_PreviewAlwaysGenerated ==
    ExportDone =>
        /\ PreviewPath \in files
        /\ outcome.kind = "result"
        /\ outcome.value.preview = PreviewPath

\* C16: run() returns None whenever its window was closed before two clicks
\* inside the axes, also on a selector that completed an earlier selection.
C16_CancelledRunReturnsNone ==
    (op = "run" /\ pc = "ran" /\ Len(selector.points) < 2)
        => outcome = Returned(NoneResult)

\* C13: find_zoom_region and validate_zoom_match never write to the caller's
\* low-mag or high-mag array: during and after every call, no statement that
\* assigns in place has reached memory one of the two images owns.
C13_InputsUnchanged ==
    written \cap CallerArrays = {}

\* C13 witness: validate_zoom_match returned after normalising a view of the
\* low-mag image and, _downsample having returned its argument, the high-mag
\* image itself.
C13_Witness ==
    /\ ValidateDone /\ pc = "returned" /\ NonEmptyCrop
    /\ ~args.has_skimage
    /\ DownsampleOwner("high_mag_img", args.high,
                       <<args.high[1], RegionShape(args.low, args.box)[1]>>) = "high_mag_img"

(***************************************************************************)
(* Scale candidates.                                                       *)
(***************************************************************************)
RatEq(p, q) == p[1] * q[2] = q[1] * p[2]

\* q lies midway between p and r
Midway(p, q, r) == (p[1] * r[2] + r[1] * p[2]) * q[2] = 2 * q[1] * p[2] * r[2]

\* the candidates still to visit are the last ones, in ascending order
AscendingRest ==
    pending = [k \in 1..Len(pending) |-> Len(scales) - Len(pending) + k]

\* C21: find_zoom_region builds exactly `steps` scale candidates, evenly
\* spaced from scale_range[0] to scale_range[1] with both ends included (for
\* steps >= 2), visits them in that order, has visited all of them when it
\* returns or reports no match, and returns one of them as the scale.
C21_EvenlySpacedCandidates ==
    (op = "find" /\ pc \in {"loop", "returned", "raised"}) =>
        /\ Len(scales) = args.steps
        /\ args.steps >= 1 => RatEq(scales[1], <<args.scale_range[1], 1>>)
        /\ args.steps >= 2 => RatEq(scales[args.steps], <<args.scale_range[2], 1>>)
        /\ \A i \in 2..(args.steps - 1) : Midway(scales[i - 1], scales[i], scales[i + 1])
        /\ AscendingRest
        /\ (pc = "returned" \/ outcome = Raised("ValueError")) => pending = <<>>
        /\ pc = "returned" =>
               \E i \in 1..args.steps : RatEq(outcome.value.scale, scales[i])

\* a search over three distinct candidates that returns the middle one
C21_Witness ==
    /\ FindReturned
    /\ args.steps = 3
    /\ args.scale_range[1] < args.scale_range[2]
    /\ outcome.value.scale = scales[2]
    /\ ~RatEq(scales[2], scales[1]) /\ ~RatEq(scales[2], scales[3])

\* C26: in every result of find_zoom_region the box has the size the reported
\* scale asks for: x2 - x1 = floor(high width / scale), y2 - y1 = floor(high
\* height / scale), and both are at least 10.
C26_BoxSizeMatchesScale ==
    FindReturned =>
        LET b == outcome.value.box
            s == outcome.value.scale
        IN  /\ b[3] - b[1] = IntDiv(args.high[2], s)
            /\ b[4] - b[2] = IntDiv(args.high[1], s)
            /\ b[3] - b[1] >= MinTemplate
            /\ b[4] - b[2] >= MinTemplate

\* the result two accepted clicks produce
SelectionOf(points) ==
    [is_none |-> FALSE,
     pixel_width |-> Abs(points[2][1] - points[1][1]),
     points |-> <<points[1], points[2]>>]

\* C27: during a run of the selector, a click outside the axes changes
\* nothing; the result is None as long as fewer than two clicks inside the
\* axes were made, and from the second such click on it is pixel_width =
\* |x2 - x1| >= 0 with the first two accepted points, whatever is clicked later.
C27_SelectorStateMachine ==
    [][pc' = "show" =>
        /\ selector'.points = selector.points => selector'.result = selector.result
        /\ Len(selector'.points) < 2 => selector'.result = NoneResult
        /\ Len(selector'.points) >= 2 =>
            /\ selector'.result = SelectionOf(selector'.points)
            /\ selector'.result.pixel_width >= 0]_vars

(***************************************************************************)
(* The internal functions.                                                 *)
(***************************************************************************)
PureDone(name) == op = name /\ pc = "returned"

\* C22: the block-average fallback of _downsample returns a grid of shape
\* (floor(H/factor), floor(W/factor)) whose cell (i, j) averages the block of
\* size (H // new_h) x (W // new_w) starting at (i*(H//new_h), j*(W//new_w));
\* for every factor >= 1 each block is non-empty and lies inside the input.
C22_BlockAverageGrid ==
    (PureDone("_downsample") /\ outcome.value.path = "blocks") =>
        LET H == args.shape[1]
            W == args.shape[2]
            new_h == (H * args.factor[2]) \div args.factor[1]
            new_w == (W * args.factor[2]) \div args.factor[1]
            cells == outcome.value.cells
        IN  /\ outcome.value.grid = <<new_h, new_w>>
            /\ DOMAIN cells = (0..(new_h - 1)) \X (0..(new_w - 1))
            /\ \A c \in DOMAIN cells :
                /\ \A p \in cells[c] :
                    /\ c[1] * (H \div new_h) <= p[1] /\ p[1] < (c[1] + 1) * (H \div new_h)
                    /\ c[2] * (W \div new_w) <= p[2] /\ p[2] < (c[2] + 1) * (W \div new_w)
                /\ Cardinality(cells[c]) = (H \div new_h) * (W \div new_w)
                /\ args.factor[1] >= args.factor[2] =>
                    /\ cells[c] # {}
                    /\ (c[1] + 1) * (H \div new_h) <= H
                    /\ (c[2] + 1) * (W \div new_w) <= W

\* a downsampling by 3/2 that leaves the last row and column of a 5x5 input out
C22_Witness ==
    /\ PureDone("_downsample")
    /\ outcome.value.path = "blocks"
    /\ args.factor[1] > args.factor[2]
    /\ outcome.value.grid[1] > 1
    /\ outcome.value.grid[1] * BlockSize(args.shape[1], outcome.value.grid[1]) < args.shape[1]

\* C23: the gradient map of _sobel_magnitude has the shape of its input and
\* no negative entry (the entries are square roots of non-negative numbers),
\* with scipy and on the first-difference fallback; on the fallback gx is 0
\* in the first column and gy is 0 in the first row.
C23_GradientMapShape ==
    PureDone("_sobel_magnitude") =>
        LET img == args.img
            res == outcome.value
        IN  /\ res.shape = img.shape
            /\ Len(res.radicand) = img.shape[1] * img.shape[2]
            /\ \A k \in 1..Len(res.radicand) : res.radicand[k] >= 0
            /\ ~args.has_scipy =>
                /\ res.gx.shape = img.shape /\ res.gy.shape = img.shape
                /\ \A r \in 0..(img.shape[1] - 1) : Px(res.gx, r, 0) = 0
                /\ \A c \in 0..(img.shape[2] - 1) : Px(res.gy, 0, c) = 0

\* the fallback on a 2x2 image whose first row and column are bright: the
\* differences are nonzero only in the second column and row
C23_Witness ==
    /\ PureDone("_sobel_magnitude")
    /\ ~args.has_scipy
    /\ args.img.shape = <<2, 2>>
    /\ Px(args.img, 0, 0) > 0
    /\ Px(outcome.value.gx, 0, 1) # 0
    /\ Px(outcome.value.gy, 1, 0) # 0
    /\ outcome.value.radicand[1] = 0

Sign(x) == IF x > 0 THEN 1 ELSE IF x < 0 THEN -1 ELSE 0

\* score j of the surface is at most score k
ScoreLeq(s, j, k) ==
    Sign(s.dots[j]) * s.dots[j] * s.dots[j] * s.norms[k]
        <= Sign(s.dots[k]) * s.dots[k] * s.dots[k] * s.norms[j]

\* score k lies in [-1, 1]
InUnitRange(s, k) == s.dots[k] * s.dots[k] * s.unit[1] <= s.unit[2] * s.norms[k]

\* np.argmax: the first index of the maximum
ArgmaxOf(s) ==
    CHOOSE k \in 1..Len(s.dots) :
        /\ \A j \in 1..Len(s.dots) : ScoreLeq(s, j, k)
        /\ \A j \in 1..(k - 1) : ~ScoreLeq(s, k, j)

UniqueMax(s) == \A j \in 1..Len(s.dots) : j # ArgmaxOf(s) => ~ScoreLeq(s, ArgmaxOf(s), j)

\* C24: every score of a correlation surface produced by _fft_correlate lies
\* in [-1, 1].
C24_ScoresInUnitRange ==
    PureDone("_fft_correlate") =>
        \A k \in 1..Len(outcome.value.dots) : InUnitRange(outcome.value, k)

\* C25: for the same image and template, with the template inside the image,
\* correlate2d and the sliding-window fallback put their maximum at the same
\* position (stated where both maxima are unique).
C25_BackendsAgree ==
    (/\ PureDone("_fft_correlate")
     /\ ~args.fast_throws
     /\ Fits(args.template.shape, args.image.shape)) =>
        LET fast == outcome.value
            slow == FftCorrelateOf(args.image, args.template, TRUE)
        IN  (UniqueMax(fast) /\ UniqueMax(slow)) =>
                /\ fast.shape = slow.shape
                /\ ArgmaxOf(fast) = ArgmaxOf(slow)

\* C30: in savgol_smooth, for every requested window >= 1 and every data
\* length >= 1, the window length passed to savgol_filter is odd, at least 1
\* and at most the data length (also when detrend_data picks the window).
C30_SavgolWindowOddAndFits ==
    ((op = "savgol_smooth" \/ op = "detrend_data") /\ pc = "returned") =>
        LET w == outcome.value.window_length
        IN  /\ w % 2 = 1
            /\ w >= 1
            /\ w <= args.n

\* an even window, made odd, exceeds data of even length and is cut to n - 1
C30_Witness ==
    /\ PureDone("savgol_smooth")
    /\ args.window % 2 = 0
    /\ args.n % 2 = 0
    /\ args.window + 1 > args.n
    /\ outcome.value.window_length = args.n - 1

\* C29: load_sem_tiff returns an image whose values all lie in [0, 1], for
\* 8-bit and 16-bit files alike, with crop_y rows when crop_info_bar is set
\* and crop_y is smaller than the image height, and all rows otherwise.
C29_LoadedImageNormalized ==
    PureDone("load_sem_tiff") =>
        /\ 0 <= outcome.value.peak[1]
        /\ outcome.value.peak[1] <= outcome.value.peak[2]
        /\ outcome.value.rows =
               IF args.crop_info_bar /\ args.crop_y < args.rows THEN args.crop_y ELSE args.rows

(***************************************************************************)
(* The experiment manager.                                                 *)
(***************************************************************************)
\* what experiment.json must hold for a log entry to be backed by it
Persisted(e) ==
    IF e.kind = "baseline" THEN saved.baseline
    ELSE /\ e.trial <= Len(saved.trials)
         /\ e.kind \in {"attached", "completed"} => saved.trials[e.trial] = "completed"
         /\ e.kind = "failed" => saved.trials[e.trial] = "failed"
         /\ e.kind = "abandoned" => saved.trials[e.trial] = "abandoned"

\* C28: every state-changing command (attach, next, complete, failed,
\* abandoned, baseline) saves experiment.json before it appends to
\* experiment_log.md: whenever no command is running, whether the last one
\* finished or died, every entry of the log is backed by the saved state.
C28_LogBackedByState ==
    Idle => \A e \in log : Persisted(e)







====
